---- MODULE Spec2Model ----
(***************************************************************************)
(* Model of the local protocol logic of smartrade-adk's front ends:        *)
(*   - the tool-call status projector (useCopilotToolCallRenderer, the     *)
(*     inline projector of CopilotSidebarWrapper) and CopilotToolCallCard; *)
(*   - the identity forwarder CopilotProvider.                             *)
(***************************************************************************)
EXTENDS Integers, Sequences, FiniteSets, TLC

VARIABLES
    \* ---- tool-call rendering (one invocation of the chat transcript) ----
    options,          \* the Options argument of useCopilotToolCallRenderer
    event,            \* latest ToolInvocationEvent delivered by the chat runtime
    nExecuting,       \* history: number of executing events delivered so far
    rendered,         \* element returned by the hook's render for the latest event
    renderedInline,   \* element returned by CopilotSidebarWrapper's inline render
    renderError,      \* TRUE once a render threw
    isExpanded,       \* CopilotToolCallCard state
    activeTab,        \* CopilotToolCallCard state
    clipboard,        \* the text on the system clipboard
    copied,           \* history: the payload handed to the last handleCopy
    copyOutcome,      \* the last copyToClipboard: "none", "written", "caught" (logged)
    \* ---- a second invocation projected by the same hook (self-composition) ----
    event2,
    rendered2,
    direct2,          \* history: the second stream has delivered no executing event
    \* ---- CopilotProvider ----
    phase,            \* "rendered" (first render, effect not yet run), "mounted", "unmounted"
    userId,           \* useState<string | null>(null)
    isLoading,        \* useState(true)
    fetch,            \* the getUser() promise: "idle", "pending", "settled"
    nFetches,         \* number of getUser() calls issued
    subActive,        \* the onAuthStateChange subscription is registered with the auth client
    nSubscribe,       \* number of onAuthStateChange calls
    nUnsubscribe,     \* number of subscription.unsubscribe() calls
    properties,       \* the property bag passed to <CopilotKit properties=...> by the last render
    authSeen,         \* history: some fetch result or notification carried an authenticated user
    errorLog,         \* number of console.error("Failed to fetch user:") calls
    uncaught,         \* TRUE once an exception left the component
    staleSets,        \* number of state setter calls made after teardown
    outbox,           \* user_id of the request sent since the last provider step, if any
    lastOp,           \* history: the last provider step and the id its input carried
    backendUser,      \* user id the backend extracted from that request, if any
    \* ---- UserDebug ----
    dPhase,           \* "rendered", "mounted", "unmounted"
    dUserId,          \* useState<string | null>(null)
    dUserEmail,       \* useState<string | null>(null)
    dLoading,         \* useState(true)
    dFetch,           \* the getUser() promise: "idle", "pending", "settled"
    dSubActive,       \* UserDebug's onAuthStateChange subscription is registered
    dSubscribe,       \* number of onAuthStateChange calls
    dUnsubscribe,     \* number of subscription.unsubscribe() calls
    dErrorLog,        \* number of console.error calls
    dMissed           \* history: a notification reached only one of the two components

renderVars == <<options, event, nExecuting, rendered, renderedInline, renderError,
                isExpanded, activeTab, clipboard, copied, copyOutcome>>
copyVars == <<clipboard, copied, copyOutcome>>
pairVars == <<event2, rendered2, direct2>>
providerVars == <<phase, userId, isLoading, fetch, nFetches, subActive, nSubscribe,
                  nUnsubscribe, properties, authSeen, errorLog, uncaught, staleSets, outbox,
                  lastOp, backendUser>>
debugVars == <<dPhase, dUserId, dUserEmail, dLoading, dFetch, dSubActive, dSubscribe,
               dUnsubscribe, dErrorLog, dMissed>>
vars == <<renderVars, pairVars, providerVars, debugVars>>

----------------------------------------------------------------------------
(* Bounds of the model *)

\* most executing events delivered to one invocation
MaxExecuting == 2

----------------------------------------------------------------------------
(* JavaScript values: a type tag t, the content s (the characters of a     *)
(* string, the literal of a number, the single key of an object) and, for  *)
(* an object, the JSON text val of that key's value.                       *)

JsUndefined == [t |-> "undefined", s |-> "", val |-> ""]
JsNull == [t |-> "null", s |-> "", val |-> ""]
JsStr(x) == [t |-> "string", s |-> x, val |-> ""]
JsNum(x) == [t |-> "number", s |-> x, val |-> ""]
JsObj(k, v) == [t |-> "object", s |-> k, val |-> v]
JsBool(x) == [t |-> "boolean", s |-> x, val |-> ""]

\* what a pane or a field shows when it shows no value
Hidden == [t |-> "hidden", s |-> "", val |-> ""]
\* what an element shows when it shows no tool name
NoName == "<none>"

\* JavaScript ToBoolean
Truthy(v) ==
    CASE v.t = "undefined" -> FALSE
      [] v.t = "null" -> FALSE
      [] v.t = "string" -> v.s # ""
      [] v.t = "number" -> v.s \notin {"0", "NaN"}
      [] v.t = "boolean" -> v.s = "true"
      [] v.t = "object" -> TRUE
      [] OTHER -> FALSE

\* a || b
Or(a, b) == IF Truthy(a) THEN a ELSE b

\* reading a property of v throws a TypeError when v is undefined or null
CanReadProp(v) == v.t \notin {"undefined", "null"}

\* ToBoolean(v.error) for a v whose properties can be read
ErrorProp(v) == v.t = "object" /\ v.s = "error" /\ v.val \notin {"null", "0", "false", "\"\""}

\* JSON.stringify(v, null, 2)
Stringify(v) ==
    CASE v.t = "undefined" -> JsUndefined
      [] v.t = "null" -> JsStr("null")
      [] v.t = "string" -> JsStr("\"" \o v.s \o "\"")
      [] v.t = "number" -> JsStr(v.s)
      [] v.t = "boolean" -> JsStr(v.s)
      [] v.t = "object" -> JsStr("{\n  \"" \o v.s \o "\": " \o v.val \o "\n}")
      [] OTHER -> JsUndefined

\* JSON.stringify(data, null, 2) applied to strings too
TextOfAlwaysStringify(v) == Stringify(v)

\* typeof data === "string" ? data : JSON.stringify(data, null, 2)
TextOf(v) == IF v.t = "string" THEN v ELSE Stringify(v)

----------------------------------------------------------------------------
(* Tool invocation events, as the chat runtime hands them to render *)

Names == {"searchStock", "getQuote"}
Statuses == {"pending", "inProgress", "executing", "complete", "aborted"}
ArgsValues == {JsObj("symbol", "\"002594\""), JsStr("{\"symbol\":\"0025")}
ResultValues == {JsUndefined, JsNull, JsStr(""), JsNum("0"), JsBool("false"), JsStr("ok"),
                 JsObj("price", "256.8"), JsObj("error", "\"timeout\""), JsObj("error", "null")}

Events == [name : Names, args : ArgsValues, status : Statuses, result : ResultValues]

\* no event delivered yet: the invocation is not in the transcript
NoEvent == [name |-> NoName, args |-> JsUndefined, status |-> "<none>", result |-> JsUndefined]

\* the renderPendingBubble option: absent, or a function of the tool name,
\* here one that labels the bubble with the name and one that ignores it
BubbleOptions == {"absent", "label", "spinner"}
OptionsValues == [renderPendingBubble : BubbleOptions]

----------------------------------------------------------------------------
(* Elements returned by render: the tag of the branch and what it is given *)
(* to show (for the card: its props).                                      *)

Element(tag, name, args, result, bubble) ==
    [tag |-> tag, name |-> name, args |-> args, result |-> result, bubble |-> bubble]

\* return null
NullElement == Element("null", NoName, Hidden, Hidden, "none")

\* a hook that shows the tool name whatever the option returns
RenderPendingBubbleIgnored(opts, name) == name

\* options.renderPendingBubble(name)
RenderPendingBubble(opts, name) ==
    IF opts.renderPendingBubble = "label" THEN name ELSE NoName

\* the complete branch tested against a misspelt status
RenderToolCallTypo(opts, e) ==
    IF e.status = "executing"
    THEN IF opts.renderPendingBubble # "absent"
         THEN Element("pending", RenderPendingBubble(opts, e.name), Hidden, Hidden, "custom")
         ELSE Element("pending", e.name, Hidden, Hidden, "default")
    ELSE IF e.status = "completed"
    THEN Element("card", e.name, e.args, e.result, "none")
    ELSE NullElement

\* the complete branch guarded by the result, as the inline renderer has it
RenderToolCallNeedsResult(opts, e) ==
    IF e.status = "executing"
    THEN IF opts.renderPendingBubble # "absent"
         THEN Element("pending", RenderPendingBubble(opts, e.name), Hidden, Hidden, "custom")
         ELSE Element("pending", e.name, Hidden, Hidden, "default")
    ELSE IF e.status = "complete" /\ Truthy(e.result)
    THEN Element("card", e.name, e.args, e.result, "none")
    ELSE NullElement

\* the pending branch taken for every status but complete
RenderToolCallNotComplete(opts, e) ==
    IF e.status # "complete"
    THEN IF opts.renderPendingBubble # "absent"
         THEN Element("pending", RenderPendingBubble(opts, e.name), Hidden, Hidden, "custom")
         ELSE Element("pending", e.name, Hidden, Hidden, "default")
    ELSE Element("card", e.name, e.args, e.result, "none")

\* the render callback of useCopilotToolCallRenderer
RenderToolCall(opts, e) ==
    IF e.status = "executing"
    THEN IF opts.renderPendingBubble # "absent"
         THEN Element("pending", RenderPendingBubble(opts, e.name), Hidden, Hidden, "custom")
         ELSE Element("pending", e.name, Hidden, Hidden, "default")
    ELSE IF e.status = "complete"
    THEN Element("card", e.name, e.args, e.result, "none")
    ELSE NullElement

\* the executing block printing result where it prints args
RenderInlinePrintsResult(e) ==
    IF e.status = "executing"
    THEN Element("pending", e.name, Hidden, Stringify(e.result), "default")
    ELSE IF e.status = "complete" /\ Truthy(e.result)
    THEN Element("done", e.name, Hidden, Stringify(e.result), "none")
    ELSE NullElement

\* the render callback registered inline by CopilotSidebarWrapper
RenderInline(e) ==
    IF e.status = "executing"
    THEN Element("pending", e.name, Stringify(e.args), Hidden, "default")
    ELSE IF e.status = "complete" /\ Truthy(e.result)
    THEN Element("done", e.name, Hidden, Stringify(e.result), "none")
    ELSE NullElement

----------------------------------------------------------------------------
(* CopilotToolCallCard *)

\* !result.error without the result && guard
IsSuccessUnguarded(result) ==
    IF ~CanReadProp(result) THEN "throw"
    ELSE IF ErrorProp(result) THEN "false" ELSE "true"

\* const isSuccess = result, without the test of the error field
IsSuccessIgnoresError(result) == IF Truthy(result) THEN "true" ELSE "false"

\* const isSuccess = result && !result.error, as the condition of ?: it is
\* "true", "false", or "throw" when the property read throws
IsSuccess(result) ==
    IF ~Truthy(result) THEN "false"
    ELSE IF ~CanReadProp(result) THEN "throw"
    ELSE IF ErrorProp(result) THEN "false" ELSE "true"

\* the result pane guarded by result != null where the card has result ? ... : ...
CardViewNullish(props, expanded, tab) ==
    [ name   |-> props.name,
      marker |-> IF IsSuccess(props.result) = "true" THEN "check" ELSE "x",
      pane   |-> IF ~expanded THEN "none"
                 ELSE IF tab = "params" THEN "params"
                 ELSE IF CanReadProp(props.result) THEN "result" ELSE "empty",
      text   |-> IF ~expanded THEN Hidden
                 ELSE IF tab = "params" THEN TextOf(props.args)
                 ELSE IF CanReadProp(props.result) THEN TextOf(props.result) ELSE Hidden,
      threw  |-> IsSuccess(props.result) = "throw" ]

\* what the card puts on screen for its props and state
CardView(props, expanded, tab) ==
    [ name   |-> props.name,
      marker |-> IF IsSuccess(props.result) = "true" THEN "check" ELSE "x",
      pane   |-> IF ~expanded THEN "none"
                 ELSE IF tab = "params" THEN "params"
                 ELSE IF Truthy(props.result) THEN "result" ELSE "empty",
      text   |-> IF ~expanded THEN Hidden
                 ELSE IF tab = "params" THEN TextOf(props.args)
                 ELSE IF Truthy(props.result) THEN TextOf(props.result) ELSE Hidden,
      threw  |-> IsSuccess(props.result) = "throw" ]

\* what the hook's element puts on screen
View(el, expanded, tab) ==
    IF el.tag = "card" THEN
        LET cv == CardView(el, expanded, tab)
        IN  [branch |-> "card", name |-> cv.name, marker |-> cv.marker, pane |-> cv.pane,
             text |-> cv.text, threw |-> cv.threw]
    ELSE [branch |-> el.tag, name |-> el.name, marker |-> "none", pane |-> "none",
          text |-> Hidden, threw |-> FALSE]

----------------------------------------------------------------------------
(* The chat runtime calls render with each event of an invocation; the     *)
(* card is a stateful component mounted while the card branch is rendered. *)

\* useCopilotToolCallRenderer() as CopilotChatWrapper and CopilotSidebarWrapper call it
NoOptions == [renderPendingBubble |-> "absent"]

\* useState(true): a card that mounts expanded
InitialExpandedOpen == TRUE

\* const [isExpanded, setIsExpanded] = useState(false)
InitialExpanded == FALSE
\* const [activeTab, setActiveTab] = useState<"params" | "result">("params")
InitialTab == "params"

RenderInit ==
    /\ event = NoEvent
    /\ nExecuting = 0
    /\ rendered = NullElement
    /\ renderedInline = NullElement
    /\ renderError = FALSE
    /\ isExpanded = InitialExpanded
    /\ activeTab = InitialTab
    /\ clipboard = Hidden
    /\ copied = Hidden
    /\ copyOutcome = "none"

\* what is on screen for the invocation
Screen == View(rendered, isExpanded, activeTab)

\* a projector that keeps history: complete is accepted only after executing
DeliverInOrder(e) ==
    /\ ~renderError
    /\ event # NoEvent => e.name = event.name
    /\ e.status = "executing" => nExecuting < MaxExecuting
    /\ event' = e
    /\ nExecuting' = IF e.status = "executing" THEN nExecuting + 1 ELSE nExecuting
    /\ rendered' = IF e.status = "complete" /\ nExecuting = 0
                   THEN rendered ELSE RenderToolCall(options, e)
    /\ renderedInline' = RenderInline(e)
    /\ IF rendered.tag = "card" /\ rendered'.tag = "card"
       THEN UNCHANGED <<isExpanded, activeTab>>
       ELSE isExpanded' = InitialExpanded /\ activeTab' = InitialTab
    /\ renderError' = View(rendered', isExpanded', activeTab').threw
    /\ UNCHANGED <<options, copyVars>>

\* the runtime delivers event e of the invocation and both projectors render it
Deliver(e) ==
    /\ ~renderError
    /\ event # NoEvent => e.name = event.name
    /\ e.status = "executing" => nExecuting < MaxExecuting
    /\ event' = e
    /\ nExecuting' = IF e.status = "executing" THEN nExecuting + 1 ELSE nExecuting
    /\ rendered' = RenderToolCall(options, e)
    /\ renderedInline' = RenderInline(e)
    /\ IF rendered.tag = "card" /\ rendered'.tag = "card"
       THEN UNCHANGED <<isExpanded, activeTab>>
       ELSE isExpanded' = InitialExpanded /\ activeTab' = InitialTab
    /\ renderError' = View(rendered', isExpanded', activeTab').threw
    /\ UNCHANGED <<options, copyVars>>

\* onClick={() => setIsExpanded(!isExpanded)}
ToggleExpanded ==
    /\ rendered.tag = "card"
    /\ ~renderError
    /\ isExpanded' = ~isExpanded
    /\ UNCHANGED <<options, event, nExecuting, rendered, renderedInline, renderError, activeTab>>
    /\ UNCHANGED copyVars

\* onClick={() => setActiveTab(tab)}, the tab buttons exist while expanded
SelectTab(tab) ==
    /\ rendered.tag = "card"
    /\ ~renderError
    /\ isExpanded
    /\ activeTab' = tab
    /\ UNCHANGED <<options, event, nExecuting, rendered, renderedInline, renderError, isExpanded>>
    /\ UNCHANGED copyVars

\* the payload of the pane on screen: args in the params tab, result in the result tab
PaneData == IF activeTab = "params" THEN rendered.args ELSE rendered.result

\* a copy button is on screen: the card is expanded and its pane is not the empty state
CopyButtonShown ==
    /\ rendered.tag = "card"
    /\ ~renderError
    /\ isExpanded
    /\ activeTab = "result" => Truthy(rendered.result)

\* navigator.clipboard.writeText(text) takes a DOMString
ClipboardText(text) == IF text.t = "undefined" THEN JsStr("undefined") ELSE text

\* copyToClipboard without try/catch: a failed write is an unhandled rejection
CopyNoCatch(ok) ==
    /\ CopyButtonShown
    /\ copied' = PaneData
    /\ IF ok
       THEN clipboard' = ClipboardText(TextOf(PaneData)) /\ copyOutcome' = "written"
       ELSE clipboard' = clipboard /\ copyOutcome' = "unhandled"
    /\ UNCHANGED <<options, event, nExecuting, rendered, renderedInline, renderError,
                   isExpanded, activeTab>>

\* copyToClipboard(data) without handleCopy's formatting: writeText coerces
\* the payload with String()
CopyUnformatted(ok) ==
    /\ CopyButtonShown
    /\ copied' = PaneData
    /\ IF ok
       THEN /\ clipboard' = IF PaneData.t = "object" THEN JsStr("[object Object]") ELSE PaneData
            /\ copyOutcome' = "written"
       ELSE clipboard' = clipboard /\ copyOutcome' = "caught"
    /\ UNCHANGED <<options, event, nExecuting, rendered, renderedInline, renderError,
                   isExpanded, activeTab>>

\* onClick={() => handleCopy(args)} and onClick={() => handleCopy(result)}:
\* the clipboard write succeeds (ok) or throws and is caught and logged
Copy(ok) ==
    /\ CopyButtonShown
    /\ copied' = PaneData
    /\ IF ok
       THEN clipboard' = ClipboardText(TextOf(PaneData)) /\ copyOutcome' = "written"
       ELSE clipboard' = clipboard /\ copyOutcome' = "caught"
    /\ UNCHANGED <<options, event, nExecuting, rendered, renderedInline, renderError,
                   isExpanded, activeTab>>

\* a renderer with a timer that drops a pending bubble by itself
RenderNextWithTimeout ==
    \/ \E e \in Events : Deliver(e)
    \/ ToggleExpanded
    \/ \E tab \in {"params", "result"} : SelectTab(tab)
    \/ \E ok \in BOOLEAN : Copy(ok)
    \/ /\ rendered.tag = "pending"
       /\ rendered' = NullElement
       /\ renderedInline' = NullElement
       /\ UNCHANGED <<options, event, nExecuting, renderError, isExpanded, activeTab, copyVars>>

RenderNext ==
    \/ \E e \in Events : Deliver(e)
    \/ ToggleExpanded
    \/ \E tab \in {"params", "result"} : SelectTab(tab)
    \/ \E ok \in BOOLEAN : Copy(ok)

(* A second event stream projected by the same hook registration *)

PairInit ==
    /\ event2 = NoEvent
    /\ rendered2 = NullElement
    /\ direct2 = TRUE

\* the events of the two streams compared: one tool call, its arguments fully streamed
PairEvents == {e \in Events : e.name = "searchStock" /\ e.args.t = "object"}

DeliverTwin(e) ==
    /\ event2' = e
    /\ rendered2' = RenderToolCall(options, e)
    /\ direct2' = (direct2 /\ e.status # "executing")

----------------------------------------------------------------------------
(* CopilotProvider *)

Users == {"u1", "u2"}
Anonymous == JsStr("anonymous")

\* the user of a session: its id, and an email when the account has one
NoUser == [present |-> FALSE, id |-> JsUndefined, email |-> JsUndefined]
UserOf(id) ==
    [present |-> TRUE, id |-> JsStr(id),
     email |-> IF id = "u1" THEN JsStr("u1@example.com") ELSE JsUndefined]
AuthUsers == {NoUser} \cup {UserOf(i) : i \in Users \cup {""}}

NoSession == [present |-> FALSE, user |-> NoUser]
SessionOf(u) == [present |-> TRUE, user |-> u]
Sessions == {NoSession} \cup {SessionOf(u) : u \in AuthUsers}

\* user?.id
UserIdField(user) == IF user.present THEN user.id ELSE JsUndefined
\* session?.user?.id
SessionIdField(session) == IF session.present THEN UserIdField(session.user) ELSE JsUndefined

\* setUserId(user?.id || null) in fetchUser
FetchedUserId(user) == Or(UserIdField(user), JsNull)
\* setUserId(null) in the catch block of fetchUser
FailedUserId == JsNull
\* session?.id || null: the session object has no id
NotifiedUserIdWrongPath(session) == Or(JsUndefined, JsNull)

\* setUserId(session?.user?.id || null) in the onAuthStateChange callback
NotifiedUserId(session) == Or(SessionIdField(session), JsNull)

\* the fallback spelt differently from the sentinel the backend knows
PropertiesOfGuest(uid) == [user_id |-> Or(uid, JsStr("guest"))]
\* user_id: userId, without the fallback
PropertiesOfNoFallback(uid) == [user_id |-> uid]

\* const properties = { user_id: userId || 'anonymous' }
PropertiesOf(uid) == [user_id |-> Or(uid, Anonymous)]

Op(op, arg) == [op |-> op, arg |-> arg]

ProviderInit ==
    /\ phase = "rendered"
    /\ userId = JsNull
    /\ isLoading = TRUE
    /\ fetch = "idle"
    /\ nFetches = 0
    /\ subActive = FALSE
    /\ nSubscribe = 0
    /\ nUnsubscribe = 0
    /\ properties = PropertiesOf(JsNull)
    /\ authSeen = FALSE
    /\ errorLog = 0
    /\ uncaught = FALSE
    /\ staleSets = 0
    /\ outbox = Hidden
    /\ backendUser = Hidden
    /\ lastOp = Op("init", JsUndefined)

\* the loading gate enabled: if (isLoading) return <div>Loading...</div>
ProviderViewLoadingGate(loading) == IF loading THEN "loading" ELSE "children"

\* what CopilotProvider returns: the loading gate is commented out, so always
\* <CopilotKit properties={properties}>{children}</CopilotKit>
ProviderView(loading) == "children"

\* useEffect(() => { fetchUser(); onAuthStateChange(...) }, []) after the first render
MountEffect ==
    /\ UNCHANGED debugVars
    /\ phase = "rendered"
    /\ phase' = "mounted"
    /\ fetch' = "pending"
    /\ nFetches' = nFetches + 1
    /\ subActive' = TRUE
    /\ nSubscribe' = nSubscribe + 1
    /\ outbox' = Hidden
    /\ backendUser' = Hidden
    /\ lastOp' = Op("mount", JsUndefined)
    /\ UNCHANGED <<userId, isLoading, nUnsubscribe, properties, authSeen, errorLog,
                   uncaught, staleSets>>

\* getUser() resolves with user: the try block, then finally
FetchResolve(user) ==
    /\ UNCHANGED debugVars
    /\ fetch = "pending"
    /\ fetch' = "settled"
    /\ IF phase = "mounted"
       THEN /\ userId' = FetchedUserId(user)
            /\ isLoading' = FALSE
            /\ properties' = PropertiesOf(userId')
            /\ UNCHANGED staleSets
       ELSE /\ staleSets' = staleSets + 2
            /\ UNCHANGED <<userId, isLoading, properties>>
    /\ authSeen' = (authSeen \/ Truthy(UserIdField(user)))
    /\ outbox' = Hidden
    /\ backendUser' = Hidden
    /\ lastOp' = Op("fetched", UserIdField(user))
    /\ UNCHANGED <<phase, nFetches, subActive, nSubscribe, nUnsubscribe, errorLog, uncaught>>

\* try/finally without the catch block: the rejection leaves fetchUser
FetchRejectNoCatch ==
    /\ UNCHANGED debugVars
    /\ fetch = "pending"
    /\ fetch' = "settled"
    /\ uncaught' = TRUE
    /\ IF phase = "mounted"
       THEN /\ isLoading' = FALSE
            /\ UNCHANGED staleSets
       ELSE /\ staleSets' = staleSets + 1
            /\ UNCHANGED isLoading
    /\ outbox' = Hidden
    /\ backendUser' = Hidden
    /\ lastOp' = Op("failed", JsUndefined)
    /\ UNCHANGED <<phase, userId, properties, nFetches, subActive, nSubscribe, nUnsubscribe,
                   authSeen, errorLog>>

\* getUser() throws: the catch block, then finally
FetchReject ==
    /\ UNCHANGED debugVars
    /\ fetch = "pending"
    /\ fetch' = "settled"
    /\ errorLog' = errorLog + 1
    /\ IF phase = "mounted"
       THEN /\ userId' = FailedUserId
            /\ isLoading' = FALSE
            /\ properties' = PropertiesOf(userId')
            /\ UNCHANGED staleSets
       ELSE /\ staleSets' = staleSets + 2
            /\ UNCHANGED <<userId, isLoading, properties>>
    /\ outbox' = Hidden
    /\ backendUser' = Hidden
    /\ lastOp' = Op("failed", JsUndefined)
    /\ UNCHANGED <<phase, nFetches, subActive, nSubscribe, nUnsubscribe, authSeen, uncaught>>

\* a callback that calls fetchUser() again on every notification
ProviderNotifiedRefetch(session) ==
    /\ userId' = NotifiedUserId(session)
    /\ properties' = PropertiesOf(userId')
    /\ authSeen' = (authSeen \/ Truthy(SessionIdField(session)))
    /\ fetch' = "pending"
    /\ nFetches' = IF nFetches < 2 THEN nFetches + 1 ELSE nFetches
    /\ outbox' = Hidden
    /\ backendUser' = Hidden
    /\ lastOp' = Op("auth", SessionIdField(session))
    /\ UNCHANGED <<phase, isLoading, subActive, nSubscribe, nUnsubscribe,
                   errorLog, uncaught, staleSets>>

\* the callback CopilotProvider subscribed, called with session
ProviderNotified(session) ==
    /\ userId' = NotifiedUserId(session)
    /\ properties' = PropertiesOf(userId')
    /\ authSeen' = (authSeen \/ Truthy(SessionIdField(session)))
    /\ outbox' = Hidden
    /\ backendUser' = Hidden
    /\ lastOp' = Op("auth", SessionIdField(session))
    /\ UNCHANGED <<phase, isLoading, fetch, nFetches, subActive, nSubscribe, nUnsubscribe,
                   errorLog, uncaught, staleSets>>

\* the callback UserDebug subscribed, called with session
DebugNotified(session) ==
    /\ dUserId' = Or(SessionIdField(session), JsNull)
    /\ dUserEmail' = Or(IF session.present THEN session.user.email ELSE JsUndefined, JsNull)
    /\ dMissed' = (dMissed \/ ~subActive)
    /\ UNCHANGED <<dPhase, dLoading, dFetch, dSubActive, dSubscribe, dUnsubscribe, dErrorLog>>

\* the auth client reports session to every subscribed callback
AuthChange(session) ==
    /\ subActive \/ dSubActive
    /\ IF subActive THEN ProviderNotified(session) ELSE UNCHANGED providerVars
    /\ IF dSubActive
       THEN DebugNotified(session)
       ELSE /\ dMissed' = TRUE
            /\ UNCHANGED <<dPhase, dUserId, dUserEmail, dLoading, dFetch, dSubActive,
                           dSubscribe, dUnsubscribe, dErrorLog>>

\* an effect that returns no cleanup
UnmountLeak ==
    /\ UNCHANGED debugVars
    /\ phase = "mounted"
    /\ phase' = "unmounted"
    /\ outbox' = Hidden
    /\ backendUser' = Hidden
    /\ lastOp' = Op("unmount", JsUndefined)
    /\ UNCHANGED <<userId, isLoading, fetch, nFetches, subActive, nSubscribe, nUnsubscribe,
                   properties, authSeen, errorLog, uncaught, staleSets>>

\* the effect's cleanup: subscription.unsubscribe()
Unmount ==
    /\ UNCHANGED debugVars
    /\ phase = "mounted"
    /\ phase' = "unmounted"
    /\ subActive' = FALSE
    /\ nUnsubscribe' = nUnsubscribe + 1
    /\ outbox' = Hidden
    /\ backendUser' = Hidden
    /\ lastOp' = Op("unmount", JsUndefined)
    /\ UNCHANGED <<userId, isLoading, fetch, nFetches, nSubscribe, properties, authSeen,
                   errorLog, uncaught, staleSets>>

\* the conversation thread of the requests
ThreadId == "t1"

\* the runtime relays the property bag verbatim as the request's forwarded_props
ForwardedProps(props) == props

\* dict.get(key, default) of the backend
DictGet(d, key, default) == IF key \in DOMAIN d THEN d[key] ELSE default
EmptyDict == [k \in {} |-> JsUndefined]

\* extract_user_id_from_forwarded_props: the id under _user_identity.user_id
\* when it is a non-empty string, else an id synthesized from the thread id
ExtractUserId(fp, thread) ==
    LET user_identity == DictGet(fp, "_user_identity", EmptyDict)
        user_id == DictGet(user_identity, "user_id", JsNull)
    IN  IF Truthy(user_id) THEN user_id ELSE JsStr("thread_user_" \o thread)

\* the chat runtime sends a request with the properties of the last render
SendRequest ==
    /\ UNCHANGED debugVars
    /\ phase # "unmounted"
    /\ outbox = Hidden
    /\ outbox' = properties.user_id
    /\ backendUser' = ExtractUserId(ForwardedProps(properties), ThreadId)
    /\ UNCHANGED <<phase, userId, isLoading, fetch, nFetches, subActive, nSubscribe,
                   nUnsubscribe, properties, authSeen, errorLog, uncaught, staleSets, lastOp>>

----------------------------------------------------------------------------
(* UserDebug *)

DebugInit ==
    /\ dPhase = "rendered"
    /\ dUserId = JsNull
    /\ dUserEmail = JsNull
    /\ dLoading = TRUE
    /\ dFetch = "idle"
    /\ dSubActive = FALSE
    /\ dSubscribe = 0
    /\ dUnsubscribe = 0
    /\ dErrorLog = 0
    /\ dMissed = FALSE

\* useEffect(() => { fetchUser(); onAuthStateChange(...) }, []) after the first render
DebugMountEffect ==
    /\ dPhase = "rendered"
    /\ dPhase' = "mounted"
    /\ dFetch' = "pending"
    /\ dSubActive' = TRUE
    /\ dSubscribe' = dSubscribe + 1
    /\ UNCHANGED <<dUserId, dUserEmail, dLoading, dUnsubscribe, dErrorLog, dMissed>>
    /\ UNCHANGED providerVars

\* getUser() resolves with user: the try block, then finally
DebugFetchResolve(user) ==
    /\ dFetch = "pending"
    /\ dFetch' = "settled"
    /\ IF dPhase = "mounted"
       THEN /\ dUserId' = Or(UserIdField(user), JsNull)
            /\ dUserEmail' = Or(user.email, JsNull)
            /\ dLoading' = FALSE
       ELSE UNCHANGED <<dUserId, dUserEmail, dLoading>>
    /\ UNCHANGED <<dPhase, dSubActive, dSubscribe, dUnsubscribe, dErrorLog, dMissed>>
    /\ UNCHANGED providerVars

\* getUser() throws: the catch block only logs, then finally
DebugFetchReject ==
    /\ dFetch = "pending"
    /\ dFetch' = "settled"
    /\ dErrorLog' = dErrorLog + 1
    /\ IF dPhase = "mounted" THEN dLoading' = FALSE ELSE UNCHANGED dLoading
    /\ UNCHANGED <<dPhase, dUserId, dUserEmail, dSubActive, dSubscribe, dUnsubscribe, dMissed>>
    /\ UNCHANGED providerVars

\* the effect's cleanup: subscription.unsubscribe()
DebugUnmount ==
    /\ dPhase = "mounted"
    /\ dPhase' = "unmounted"
    /\ dSubActive' = FALSE
    /\ dUnsubscribe' = dUnsubscribe + 1
    /\ UNCHANGED <<dUserId, dUserEmail, dLoading, dFetch, dSubscribe, dErrorLog, dMissed>>
    /\ UNCHANGED providerVars

\* what UserDebug shows as User ID: nothing while loading
DebugShownId == IF dLoading THEN Hidden ELSE Or(dUserId, Anonymous)

IdentityNext ==
    \/ MountEffect
    \/ \E u \in AuthUsers : FetchResolve(u)
    \/ FetchReject
    \/ \E s \in Sessions : AuthChange(s)
    \/ Unmount
    \/ SendRequest
    \/ DebugMountEffect
    \/ \E u \in AuthUsers : DebugFetchResolve(u)
    \/ DebugFetchReject
    \/ DebugUnmount

----------------------------------------------------------------------------
(* Specifications *)

Init == options = NoOptions /\ RenderInit /\ PairInit /\ ProviderInit /\ DebugInit
\* the hook called with any Options
InitOptions == options \in OptionsValues /\ RenderInit /\ PairInit /\ ProviderInit /\ DebugInit

\* the tool-call projector and its card
RenderStep == RenderNext /\ UNCHANGED <<pairVars, providerVars, debugVars>>
\* two event streams through the one projector
PairStep ==
    \/ \E e \in PairEvents : Deliver(e) /\ UNCHANGED <<pairVars, providerVars, debugVars>>
    \/ \E e \in PairEvents : DeliverTwin(e) /\ UNCHANGED <<renderVars, providerVars, debugVars>>
\* the identity forwarder and the debug panel, on one auth client
ProviderStep == IdentityNext /\ UNCHANGED <<renderVars, pairVars>>

Next == RenderStep \/ PairStep \/ ProviderStep

Spec == Init /\ [][Next]_vars
SpecRender == Init /\ [][RenderStep]_vars
SpecPair == Init /\ [][PairStep]_vars
SpecProvider == Init /\ [][ProviderStep]_vars
SpecOptions == InitOptions /\ [][RenderStep]_vars

----------------------------------------------------------------------------
(* Claims *)

\* C1: after any sequence of events of one invocation whose last event is
\* complete with a non-empty result, the result card is rendered (the hook's
\* card with that event's name, args and result; the inline projector's
\* completed block), however many executing events came before.
C1_CompleteRendersCard ==
    (event.status = "complete" /\ Truthy(event.result)) =>
        /\ Screen.branch = "card"
        /\ rendered = Element("card", event.name, event.args, event.result, "none")
        /\ renderedInline.tag = "done"
        /\ renderedInline.result = Stringify(event.result)
        /\ ~renderError

C1_Witness ==
    /\ event.status = "complete"
    /\ event.result = JsObj("price", "256.8")
    /\ nExecuting >= 2
    /\ Screen.branch = "card"

C5_NoHistory ==
    /\ event = event2 => rendered = rendered2
    /\ (event.status = "complete" /\ nExecuting = 0) => (rendered.tag = "card" /\ ~renderError)
    /\ (event2.status = "complete" /\ direct2) => rendered2.tag = "card"

C5_Witness ==
    /\ event = event2
    /\ event.status = "complete"
    /\ nExecuting >= 1
    /\ direct2
    /\ rendered.tag = "card"
    /\ rendered2 = rendered

\* C6: while no fetch result and no notification has carried an authenticated
\* user (the fetch pending included), the forwarded user_id is "anonymous".
C6_AnonymousWithoutSession ==
    ~authSeen => properties.user_id = JsStr("anonymous")

C6_Witness ==
    /\ ~authSeen
    /\ fetch = "settled"
    /\ lastOp.op = "auth"
    /\ phase = "mounted"
    /\ properties.user_id = JsStr("anonymous")

\* C7: right after an identity-change notification the forwarded user_id is
\* the notification's user id when it carries one and "anonymous" when it
\* carries none, and a request sent next carries that identity.
C7_NotificationUpdatesIdentity ==
    lastOp.op = "auth" =>
        LET expected == IF lastOp.arg \in {JsStr(u) : u \in Users}
                        THEN lastOp.arg ELSE JsStr("anonymous")
        IN  /\ properties.user_id = expected
            /\ outbox # Hidden => outbox = expected

C7_Witness ==
    /\ lastOp = Op("auth", JsStr("u2"))
    /\ fetch = "settled"
    /\ outbox = JsStr("u2")

\* C8: when the mount-time fetch throws, the failure is caught and logged,
\* nothing propagates, loading ends, and the identity the mounted component
\* forwards is "anonymous".
C8_FetchFailureFallsBack ==
    /\ ~uncaught
    /\ lastOp.op = "failed" =>
        /\ errorLog = 1
        /\ phase = "mounted" =>
            /\ userId = JsNull
            /\ ~isLoading
            /\ properties.user_id = JsStr("anonymous")
            /\ outbox # Hidden => outbox = JsStr("anonymous")

C8_Witness ==
    /\ lastOp.op = "failed"
    /\ authSeen
    /\ phase = "mounted"
    /\ outbox = JsStr("anonymous")

\* C9: in every state the property bag holds exactly the key user_id with a
\* non-empty string, "anonymous" when the stored id is null; the stored id is
\* never the empty string, and every request sent carries a non-empty string.
C9_UserIdNonEmpty ==
    /\ DOMAIN properties = {"user_id"}
    /\ properties.user_id.t = "string"
    /\ properties.user_id.s # ""
    /\ userId \in {JsNull} \cup {JsStr(u) : u \in Users}
    /\ userId = JsNull => properties.user_id = JsStr("anonymous")
    /\ outbox # Hidden => (outbox.t = "string" /\ outbox.s # "")

C9_Witness ==
    /\ lastOp = Op("auth", JsStr(""))
    /\ authSeen
    /\ properties.user_id = JsStr("anonymous")
    /\ outbox = JsStr("anonymous")

\* C10: the subscription of CopilotProvider, and likewise of UserDebug, is
\* acquired once, by the mount effect, and released once, by the teardown: it
\* is active exactly while its component is mounted.
C10_SubscriptionScoped ==
    /\ phase = "rendered" => (nSubscribe = 0 /\ nUnsubscribe = 0 /\ ~subActive)
    /\ phase = "mounted" => (nSubscribe = 1 /\ nUnsubscribe = 0 /\ subActive)
    /\ phase = "unmounted" => (nSubscribe = 1 /\ nUnsubscribe = 1 /\ ~subActive)
    /\ dPhase = "rendered" => (dSubscribe = 0 /\ dUnsubscribe = 0 /\ ~dSubActive)
    /\ dPhase = "mounted" => (dSubscribe = 1 /\ dUnsubscribe = 0 /\ dSubActive)
    /\ dPhase = "unmounted" => (dSubscribe = 1 /\ dUnsubscribe = 1 /\ ~dSubActive)

C10_Witness ==
    /\ phase = "unmounted"
    /\ nUnsubscribe = 1
    /\ ~subActive
    /\ fetch = "pending"
    /\ dPhase = "mounted"
    /\ dSubActive
    /\ dUserId = JsStr("u1")
    /\ userId = JsNull

\* C11: for every request sent, the backend's extraction of
\* forwarded_props._user_identity.user_id yields the forwarded identity, never
\* the identifier synthesized from the thread id.
C11_BackendReadsForwardedIdentity ==
    outbox # Hidden =>
        /\ backendUser = outbox
        /\ backendUser # JsStr("thread_user_" \o ThreadId)

\* C12: a copy that succeeds leaves on the clipboard the payload itself when
\* it is a string and otherwise its JSON text indented by two spaces; {a:1}
\* gives the three lines {, "a": 1 and }.
C12_CopyWritesFormattedText ==
    /\ copyOutcome = "written" =>
        /\ copied.t = "string" => clipboard = copied
        /\ copied.t = "object" =>
              clipboard = JsStr("{\n  \"" \o copied.s \o "\": " \o copied.val \o "\n}")
        /\ copied.t \in {"string", "object"}
    /\ Stringify(JsObj("a", "1")) = JsStr("{\n  \"a\": 1\n}")

C12_Witness ==
    /\ copyOutcome = "written"
    /\ copied = JsObj("price", "256.8")
    /\ clipboard = JsStr("{\n  \"price\": 256.8\n}")
    /\ activeTab = "result"

\* C13: a clipboard write that fails is caught and logged and never leaves
\* copyToClipboard; the step changes nothing that is rendered (element,
\* expanded flag, active tab, shown args and result) nor the clipboard, and the
\* card still takes the next click.
C13_CopyFailureIsLocal ==
    /\ [](copyOutcome \in {"none", "written", "caught"})
    /\ []((copyOutcome = "caught" /\ rendered.tag = "card") => ENABLED ToggleExpanded)
    /\ [][(copyOutcome' = "caught" /\ <<copied, copyOutcome>>' # <<copied, copyOutcome>>) =>
            /\ UNCHANGED <<rendered, renderedInline, isExpanded, activeTab, event, clipboard,
                           renderError>>
            /\ Screen' = Screen]_vars

C13_Witness ==
    /\ copyOutcome = "caught"
    /\ copied = JsObj("price", "256.8")
    /\ clipboard = JsStr("ok")
    /\ isExpanded
    /\ activeTab = "result"
    /\ Screen.pane = "result"

\* C14: on a complete event with a result present the card is rendered with
\* the tool name; a card that has just been mounted is collapsed; the toggle
\* is enabled and, once expanded, the params tab shows the argument payload and
\* the result tab the result payload. For searchStock, executing then complete
\* with {price: 256.8}, the card names searchStock and its result tab shows
\* the text holding 256.8.
C14_CardShowsNameArgsResult ==
    /\ []((event.status = "complete" /\ Truthy(event.result)) =>
            /\ Screen.branch = "card"
            /\ Screen.name = event.name
            /\ ENABLED ToggleExpanded
            /\ ~isExpanded => (Screen.pane = "none" /\ Screen.text = Hidden)
            /\ isExpanded => (ENABLED SelectTab("params") /\ ENABLED SelectTab("result"))
            /\ (isExpanded /\ activeTab = "params") =>
                  (Screen.pane = "params" /\ Screen.text = TextOf(event.args))
            /\ (isExpanded /\ activeTab = "result") =>
                  (Screen.pane = "result" /\ Screen.text = TextOf(event.result)))
    /\ []((/\ event.name = "searchStock"
           /\ event.status = "complete"
           /\ event.result = JsObj("price", "256.8")
           /\ isExpanded
           /\ activeTab = "result") =>
            (Screen.name = "searchStock" /\ Screen.text = JsStr("{\n  \"price\": 256.8\n}")))
    /\ [][(rendered.tag # "card" /\ rendered'.tag = "card") =>
            (~isExpanded' /\ Screen'.pane = "none")]_vars

C14_Witness ==
    /\ nExecuting >= 1
    /\ event.name = "searchStock"
    /\ event.status = "complete"
    /\ event.result = JsObj("price", "256.8")
    /\ isExpanded
    /\ activeTab = "result"
    /\ Screen.name = "searchStock"
    /\ Screen.text = JsStr("{\n  \"price\": 256.8\n}")

\* C15: there is no timeout or abort path. While the last delivered event is
\* executing the pending indicator stays rendered, and once the pending
\* indicator is rendered no step changes what is rendered unless it delivers
\* a new event of the same invocation.
C15_PendingUntilNextEvent ==
    /\ [](event.status = "executing" => (rendered.tag = "pending" /\ renderedInline.tag = "pending"))
    /\ [][(rendered.tag = "pending" /\ <<rendered, renderedInline, Screen>>' # <<rendered, renderedInline, Screen>>) =>
            (event' # event /\ event'.name = event.name)]_vars
    /\ [][(rendered.tag = "pending" /\ event' = event) =>
            (rendered'.tag = "pending" /\ Screen'.branch = Screen.branch)]_vars

C15_Witness ==
    /\ nExecuting = MaxExecuting
    /\ event.status = "executing"
    /\ rendered.tag = "pending"
    /\ Screen.branch = "pending"
    /\ copyOutcome # "none"

\* C16: the catch-all renderer shows the loading block while the status is
\* inProgress, the result block when the status is complete and a result is
\* present, and nothing in every other case.
C16_AsDocumented ==
    event # NoEvent =>
        /\ event.status = "inProgress" =>
              (renderedInline.tag = "pending" /\ renderedInline.args = Stringify(event.args))
        /\ (event.status = "complete" /\ Truthy(event.result)) =>
              (renderedInline.tag = "done" /\ renderedInline.result = Stringify(event.result))
        /\ (/\ event.status # "inProgress"
            /\ ~(event.status = "complete" /\ Truthy(event.result))) =>
              renderedInline = NullElement

\* C17: getUser is issued exactly once per mount of CopilotProvider, by the
\* mount effect; no notification, fetch outcome or request issues another one,
\* a settled fetch stays settled, and after it has settled the identity
\* changes only through the subscription callback.
C17_FetchOncePerMount ==
    /\ [](/\ phase = "rendered" => (nFetches = 0 /\ fetch = "idle")
          /\ phase \in {"mounted", "unmounted"} => (nFetches = 1 /\ fetch # "idle"))
    /\ [][nFetches' # nFetches => (lastOp'.op = "mount" /\ nFetches' = nFetches + 1)]_vars
    /\ [][fetch = "settled" => fetch' = "settled"]_vars
    /\ [][(fetch = "settled" /\ userId' # userId) => lastOp'.op = "auth"]_vars

C17_Witness ==
    /\ nFetches = 1
    /\ fetch = "settled"
    /\ lastOp.op = "auth"
    /\ userId = JsStr("u2")
    /\ errorLog = 1

\* C18: the identity fetch never blocks rendering. CopilotProvider returns its
\* children under the chat runtime in every state, also while the fetch is
\* pending; the loading flag is true until the fetch settles, false once it
\* has settled in the mounted component, by success or by throw, and it never
\* becomes true again.
C18_FetchNeverBlocksRendering ==
    /\ [](ProviderView(isLoading) = "children")
    /\ [](fetch \in {"idle", "pending"} => isLoading)
    /\ []((fetch = "settled" /\ lastOp.op \in {"fetched", "failed"} /\ phase = "mounted") => ~isLoading)
    /\ [][(fetch = "pending" /\ fetch' = "settled" /\ phase = "mounted") => ~isLoading']_vars
    /\ [][~isLoading => ~isLoading']_vars

C18_Witness ==
    /\ fetch = "settled"
    /\ lastOp.op = "failed"
    /\ phase = "mounted"
    /\ ~isLoading
    /\ errorLog = 1
    /\ ProviderView(isLoading) = "children"

\* C19: once a notification has set the forwarded identity, a mount-time
\* fetch that resolves or fails after that notification does not overwrite
\* it: the step that settles the fetch right after a notification leaves the
\* forwarded properties as the notification set them.
C19_NotificationNotOverwritten ==
    [][(lastOp.op = "auth" /\ lastOp'.op \in {"fetched", "failed"}) =>
            properties' = properties]_vars

C21_DebugShowsForwardedId ==
    (/\ phase = "mounted" /\ dPhase = "mounted"
     /\ fetch = "settled" /\ dFetch = "settled"
     /\ errorLog = 1 /\ dErrorLog = 1
     /\ ~dMissed) =>
        DebugShownId = properties.user_id

\* C22: the inline projector of CopilotSidebarWrapper and the shared hook
\* select the same render branch (nothing, pending indicator, completed
\* display) for every combination of status and result presence.
C22_InlineAgreesWithHook ==
    event # NoEvent =>
        /\ rendered.tag = "null" <=> renderedInline.tag = "null"
        /\ rendered.tag = "pending" <=> renderedInline.tag = "pending"
        /\ rendered.tag = "card" <=> renderedInline.tag = "done"

\* C23: when the events of an invocation arrive in non-decreasing status
\* order (pending, executing, complete), the branch rendered by the hook only
\* moves forward through nothing, pending indicator, result card: a delivery
\* that does not go back in status never takes the card back to the pending
\* indicator or to nothing, nor the pending indicator back to nothing.
C23_BranchMovesForward ==
    [][LET StatusRank(st) == IF st = "pending" THEN 0 ELSE IF st = "executing" THEN 1 ELSE 2
           BranchRank(tag) == IF tag = "null" THEN 0 ELSE IF tag = "pending" THEN 1 ELSE 2
           Ordered == {"pending", "executing", "complete"}
       IN  (/\ event.status \in Ordered
            /\ event'.status \in Ordered
            /\ StatusRank(event'.status) >= StatusRank(event.status)) =>
              BranchRank(rendered'.tag) >= BranchRank(rendered.tag)]_vars

C23_Witness ==
    /\ nExecuting = 1
    /\ event.status = "complete"
    /\ event.result = JsUndefined
    /\ rendered.tag = "card"
    /\ Screen.branch = "card"

\* C24: inside the expanded card the result tab shows the empty-state
\* message exactly when the result is falsy (undefined, null, 0, false or the
\* empty string), without a copy control; for every other result it shows the
\* result text with its copy control. No value of result makes the card throw.
C24_EmptyStateIffFalsy ==
    /\ ~renderError
    /\ ~Screen.threw
    /\ (rendered.tag = "card" /\ isExpanded /\ activeTab = "result") =>
          IF event.result \in {JsUndefined, JsNull, JsNum("0"), JsBool("false"), JsStr("")}
          THEN /\ Screen.pane = "empty"
               /\ Screen.text = Hidden
               /\ ~ENABLED Copy(TRUE)
          ELSE /\ Screen.pane = "result"
               /\ Screen.text = TextOf(event.result)
               /\ Screen.text.t = "string"
               /\ ENABLED Copy(TRUE)

C24_Witness ==
    /\ rendered.tag = "card"
    /\ isExpanded
    /\ activeTab = "result"
    /\ event.result = JsBool("false")
    /\ Screen.pane = "empty"

\* C25: the card shows the success marker exactly when the result is present
\* (truthy, as the card tests it) and has no truthy error field; a complete
\* event whose result is missing or carries an error shows the failure
\* marker. The marker is a function of the result alone: it is the same for
\* every value of the expanded flag and of the active tab.
C25_MarkerFollowsResult ==
    rendered.tag = "card" =>
        /\ Screen.marker \in {"check", "x"}
        /\ Screen.marker = "check" <=>
              event.result \in {JsStr("ok"), JsObj("price", "256.8"), JsObj("error", "null")}
        /\ event.result \in {JsUndefined, JsNull, JsObj("error", "\"timeout\"")} =>
              Screen.marker = "x"
        /\ \A expanded \in BOOLEAN, tab \in {"params", "result"} :
              View(rendered, expanded, tab).marker = Screen.marker

C25_Witness ==
    /\ rendered.tag = "card"
    /\ isExpanded
    /\ activeTab = "result"
    /\ event.result = JsObj("error", "\"timeout\"")
    /\ Screen.marker = "x"
    /\ Screen.pane = "result"

\* C26: for the argument pane and for the result pane, the text a successful
\* copy writes to the clipboard is the text the pane displays, for string and
\* non-string payloads alike; the copy leaves the displayed text as it was.
C26_CopyMatchesDisplay ==
    [][(copyOutcome' = "written" /\ copyVars' # copyVars) =>
          /\ Screen.pane \in {"params", "result"}
          /\ Screen.pane = activeTab
          /\ Screen.text.t = "string"
          /\ clipboard' = Screen.text
          /\ Screen' = Screen]_vars

C26_Witness ==
    /\ copyOutcome = "written"
    /\ activeTab = "params"
    /\ isExpanded
    /\ copied = JsObj("symbol", "\"002594\"")
    /\ clipboard = JsStr("{\n  \"symbol\": \"002594\"\n}")
    /\ Screen.text = clipboard

\* C27: when the renderPendingBubble option is supplied, the executing branch
\* renders what the option returns for the tool name, inside the pending
\* wrapper, instead of the default name indicator; for every other status the
\* element rendered is the one rendered without the option.
C27_OptionOnlyChangesBubble ==
    event # NoEvent =>
        /\ (event.status = "executing" /\ options.renderPendingBubble # "absent") =>
              /\ rendered.tag = "pending"
              /\ rendered.bubble = "custom"
              /\ options.renderPendingBubble = "label" => rendered.name = event.name
              /\ options.renderPendingBubble = "spinner" => rendered.name = NoName
        /\ (event.status = "executing" /\ options.renderPendingBubble = "absent") =>
              (rendered.tag = "pending" /\ rendered.bubble = "default" /\ rendered.name = event.name)
        /\ event.status # "executing" =>
              /\ rendered = RenderToolCall(NoOptions, event)
              /\ rendered.bubble = "none"
              /\ rendered.tag = IF event.status = "complete" THEN "card" ELSE "null"

C27_Witness ==
    /\ options.renderPendingBubble = "spinner"
    /\ event.status = "executing"
    /\ rendered.tag = "pending"
    /\ rendered.bubble = "custom"
    /\ rendered.name = NoName

====
